---- MODULE Spec2Model ----
(***************************************************************************)
(* Strategy evaluation engine of src/file.cpp: the indicator helpers (sma, *)
(* ema, calculate_rsi) and the three evaluators run_rsi_strategy,          *)
(* run_macd_strategy and run_bollinger_strategy, each a pass over a price  *)
(* series with a Flat/Long position and trade accounting.                  *)
(*                                                                         *)
(* A C++ double is modelled as a fixed-point number: the integer x stands  *)
(* for the value x / Scale, and a product or quotient is rounded down to   *)
(* the next multiple of 1 / Scale.  Vectors are sequences; the element the *)
(* code calls v[j] (0-based) is At(v, j).                                  *)
(***************************************************************************)
EXTENDS Integers, Sequences, FiniteSets, TLC

\* ---------------------------------------------------------------- numbers
Scale == 1000

ToD(n) == n * Scale
\* a * b / Scale and a * Scale / b, rounded down, computed from the quotient
\* and the remainder so that the full product is never formed
FMul(a, b) == (a \div Scale) * b + ((a % Scale) * b) \div Scale
FDiv(a, b) == (a \div b) * Scale + ((a % b) * Scale) \div b

RECURSIVE SqrtSearch(_, _, _)
SqrtSearch(x, lo, hi) ==
    IF lo >= hi THEN lo
    ELSE LET mid == (lo + hi + 1) \div 2
         IN IF mid * mid <= x THEN SqrtSearch(x, mid, hi)
                              ELSE SqrtSearch(x, lo, mid - 1)

\* sqrt of a fixed-point number: the largest r with (r/Scale)^2 <= x/Scale
FSqrt(x) == SqrtSearch(x * Scale, 0, 46340)

At(v, j) == v[j + 1]
Size(v) == Len(v)

\* ------------------------------------------------------------- indicators
RECURSIVE SumRange(_, _, _)
SumRange(data, from, to) ==
    IF from > to THEN 0 ELSE SumRange(data, from, to - 1) + At(data, to)

sma(data, start, period) ==
    IF start < period - 1 THEN 0
    ELSE FDiv(SumRange(data, start - period + 1, start), ToD(period))

ema(data, start, period, prev_ema) ==
    LET k == FDiv(ToD(2), ToD(period + 1))
    IN FMul(At(data, start), k) + FMul(prev_ema, ToD(1) - k)

RECURSIVE GainSum(_, _, _)
GainSum(closes_, from, to) ==
    IF from > to THEN 0
    ELSE LET change == At(closes_, to) - At(closes_, to - 1)
         IN GainSum(closes_, from, to - 1) + (IF change > 0 THEN change ELSE 0)

RECURSIVE LossSum(_, _, _)
LossSum(closes_, from, to) ==
    IF from > to THEN 0
    ELSE LET change == At(closes_, to) - At(closes_, to - 1)
         IN LossSum(closes_, from, to - 1) + (IF change > 0 THEN 0 ELSE 0 - change)

RsiSentinelZero(closes_, current_index, period) ==
    IF current_index < period THEN 0
    ELSE LET gain == GainSum(closes_, current_index - period + 1, current_index)
             loss == LossSum(closes_, current_index - period + 1, current_index)
             rs == IF loss = 0 THEN 0 ELSE FDiv(gain, loss)
         IN ToD(100) - FDiv(ToD(100), ToD(1) + rs)

RsiZeroLossIsMax(closes_, current_index, period) ==
    IF current_index < period THEN ToD(50)
    ELSE LET gain == GainSum(closes_, current_index - period + 1, current_index)
             loss == LossSum(closes_, current_index - period + 1, current_index)
             rs == IF loss = 0 THEN 0 ELSE FDiv(gain, loss)
         IN IF loss = 0 THEN ToD(100)
            ELSE ToD(100) - FDiv(ToD(100), ToD(1) + rs)

calculate_rsi(closes_, current_index, period) ==
    IF current_index < period THEN ToD(50)
    ELSE LET gain == GainSum(closes_, current_index - period + 1, current_index)
             loss == LossSum(closes_, current_index - period + 1, current_index)
             rs == IF loss = 0 THEN 0 ELSE FDiv(gain, loss)
         IN ToD(100) - FDiv(ToD(100), ToD(1) + rs)

\* ------------------------------------------------------ program constants
RsiPeriod == 14
RsiStart == 15
RsiBuyBelow == 30
RsiSellAbove == 70
FastPeriod == 12
SlowPeriod == 26
SignalPeriod == 9
FastSeed == 11
SlowSeed == 25
MacdStart == 26
BollPeriod == 20
BollWidth == 2

Strategies == {"rsi", "macd", "bollinger"}

\* ------------------------------------------------------------------ state
VARIABLES
    closes,     \* the price series handed to every evaluator
    threshold,  \* profit_threshold
    calls,      \* calls of each evaluator the caller has still to make
    pc,         \* per evaluator: "idle", "scan" (inside the trading loop), "done"
    loc,        \* per evaluator: the locals of its current call
    macd,       \* run_macd_strategy: the MACD line
    signal,     \* run_macd_strategy: the signal line
    result,     \* per evaluator: the TradeResult of its latest return
    first,      \* per evaluator: the TradeResult of its first return
    crashed,    \* the process was ended by an out-of-range read
    oob,        \* an element outside a vector has been read
    rsi_call    \* the latest direct call of calculate_rsi, with its value

vars == <<closes, threshold, calls, pc, loc, macd, signal, result, first,
          crashed, oob, rsi_call>>

None == [none |-> TRUE]

\* the locals of a call that has not begun
NoLocals ==
    [i |-> 0, holding |-> FALSE, entry |-> 0, trades |-> 0, profitables |-> 0,
     total_ret |-> 0, signals |-> <<>>]

\* lines 53-57, 95-99, 126-130: the locals as declared
Locals(n, start) ==
    [i |-> start, holding |-> FALSE, entry |-> 0, trades |-> 0, profitables |-> 0,
     total_ret |-> 0, signals |-> [j \in 1..n |-> 0]]

\* Trade with the entry taken whether or not a position is open
TradeBuysWhileLong(l, idx, buy, sell) ==
    IF buy
    THEN [l EXCEPT !.entry = At(closes, idx), !.holding = TRUE,
                   !.signals[idx + 1] = 1]
    ELSE IF l.holding /\ sell
    THEN LET ret == FDiv(At(closes, idx) - l.entry, l.entry)
         IN [l EXCEPT !.total_ret = @ + ret,
                      !.profitables = IF ret > threshold THEN @ + 1 ELSE @,
                      !.trades = @ + 1, !.holding = FALSE,
                      !.signals[idx + 1] = -1]
    ELSE l

\* Trade with the return taken relative to the exit price
TradeReturnOverExit(l, idx, buy, sell) ==
    IF ~l.holding /\ buy
    THEN [l EXCEPT !.entry = At(closes, idx), !.holding = TRUE,
                   !.signals[idx + 1] = 1]
    ELSE IF l.holding /\ sell
    THEN LET ret == FDiv(At(closes, idx) - l.entry, At(closes, idx))
         IN [l EXCEPT !.total_ret = @ + ret,
                      !.profitables = IF ret > threshold THEN @ + 1 ELSE @,
                      !.trades = @ + 1, !.holding = FALSE,
                      !.signals[idx + 1] = -1]
    ELSE l

\* Trade with the entry price read one bar early
TradeEntryAtPreviousClose(l, idx, buy, sell) ==
    IF ~l.holding /\ buy
    THEN [l EXCEPT !.entry = At(closes, idx - 1), !.holding = TRUE,
                   !.signals[idx + 1] = 1]
    ELSE IF l.holding /\ sell
    THEN LET ret == FDiv(At(closes, idx) - l.entry, l.entry)
         IN [l EXCEPT !.total_ret = @ + ret,
                      !.profitables = IF ret > threshold THEN @ + 1 ELSE @,
                      !.trades = @ + 1, !.holding = FALSE,
                      !.signals[idx + 1] = -1]
    ELSE l

\* lines 61-72, 103-114, 142-153: one bar of the position state machine
Trade(l, idx, buy, sell) ==
    IF ~l.holding /\ buy
    THEN [l EXCEPT !.entry = At(closes, idx), !.holding = TRUE,
                   !.signals[idx + 1] = 1]
    ELSE IF l.holding /\ sell
    THEN LET ret == FDiv(At(closes, idx) - l.entry, l.entry)
         IN [l EXCEPT !.total_ret = @ + ret,
                      !.profitables = IF ret > threshold THEN @ + 1 ELSE @,
                      !.trades = @ + 1, !.holding = FALSE,
                      !.signals[idx + 1] = -1]
    ELSE l

\* Summary with a position still open at the end counted as a trade
SummaryForcedClose(l) ==
    LET n == l.trades + (IF l.holding THEN 1 ELSE 0)
    IN [success_rate |-> IF n # 0
                         THEN FMul(FDiv(ToD(l.profitables), ToD(n)), ToD(100))
                         ELSE 0,
        avg_return |-> IF n # 0
                       THEN FMul(FDiv(l.total_ret, ToD(n)), ToD(100))
                       ELSE 0,
        total_trades |-> n,
        signal_positions |-> l.signals]

\* lines 75, 117, 156: the returned TradeResult
Summary(l) ==
    [success_rate |-> IF l.trades # 0
                      THEN FMul(FDiv(ToD(l.profitables), ToD(l.trades)), ToD(100))
                      ELSE 0,
     avg_return |-> IF l.trades # 0
                    THEN FMul(FDiv(l.total_ret, ToD(l.trades)), ToD(100))
                    ELSE 0,
     total_trades |-> l.trades,
     signal_positions |-> l.signals]

\* Begin with the position kept from the evaluator's previous call
BeginKeepsPosition(e, l) ==
    /\ ~crashed
    /\ pc[e] # "scan"
    /\ calls[e] > 0
    /\ calls' = [calls EXCEPT ![e] = @ - 1]
    /\ pc' = [pc EXCEPT ![e] = "scan"]
    /\ loc' = [loc EXCEPT ![e] = [l EXCEPT !.holding = loc[e].holding,
                                           !.entry = loc[e].entry]]

\* entering an evaluator: its locals are fresh
Begin(e, l) ==
    /\ ~crashed
    /\ pc[e] # "scan"
    /\ calls[e] > 0
    /\ calls' = [calls EXCEPT ![e] = @ - 1]
    /\ pc' = [pc EXCEPT ![e] = "scan"]
    /\ loc' = [loc EXCEPT ![e] = l]

Return(e) ==
    /\ result' = [result EXCEPT ![e] = Summary(loc[e])]
    /\ first' = IF first[e] = None THEN [first EXCEPT ![e] = Summary(loc[e])]
                                   ELSE first
    /\ pc' = [pc EXCEPT ![e] = "done"]

\* --------------------------------------------------------- run_rsi_strategy
\* RsiCall with the loop entered one bar early
RsiCallStartsEarly ==
    /\ Begin("rsi", Locals(Size(closes), RsiPeriod))
    /\ UNCHANGED <<closes, threshold, macd, signal, result, first, crashed, oob,
                   rsi_call>>

\* lines 50-57, and 59 up to the first test of the loop condition
RsiCall ==
    /\ Begin("rsi", Locals(Size(closes), RsiStart))
    /\ UNCHANGED <<closes, threshold, macd, signal, result, first, crashed, oob,
                   rsi_call>>

\* lines 60-61, 65: the conditions at bar i
RsiEntry(i) == calculate_rsi(closes, i, RsiPeriod) < ToD(RsiBuyBelow)
RsiExit(i) == calculate_rsi(closes, i, RsiPeriod) > ToD(RsiSellAbove)

\* lines 59-73: one iteration of the loop
RsiBar(l) ==
    LET t == Trade(l, l.i, RsiEntry(l.i), RsiExit(l.i))
    IN [t EXCEPT !.i = @ + 1]

RsiStep ==
    /\ ~crashed /\ pc["rsi"] = "scan"
    /\ loc["rsi"].i < Size(closes)
    /\ loc' = [loc EXCEPT !["rsi"] = RsiBar(@)]
    /\ UNCHANGED <<closes, threshold, calls, pc, macd, signal, result, first,
                   crashed, oob, rsi_call>>

RsiReturn ==
    /\ ~crashed /\ pc["rsi"] = "scan"
    /\ ~(loc["rsi"].i < Size(closes))
    /\ Return("rsi")
    /\ UNCHANGED <<closes, threshold, calls, loc, macd, signal, crashed, oob,
                   rsi_call>>

\* -------------------------------------------------------- run_macd_strategy
\* what an out-of-range read may yield when it does not end the process
Garbage == {0, 0 - ToD(7)}

\* v[j]: the element when there is one, anything otherwise
Read(v, j) == IF j < Size(v) THEN {At(v, j)} ELSE Garbage

\* lines 85-89: one MACD value per bar from bar i on, both EMAs carried along
RECURSIVE MacdFrom(_, _, _)
MacdFrom(i, ema12, ema26) ==
    IF ~(i < Size(closes)) THEN <<>>
    ELSE LET e12 == ema(closes, i, FastPeriod, ema12)
             e26 == ema(closes, i, SlowPeriod, ema26)
         IN <<e12 - e26>> \o MacdFrom(i + 1, e12, e26)

\* lines 92-93: the signal line after its seed, extended bar by bar
RECURSIVE SignalFrom(_, _, _)
SignalFrom(line, i, back) ==
    IF ~(i < Size(line)) THEN <<>>
    ELSE LET s == ema(line, i, SignalPeriod, back)
         IN <<s>> \o SignalFrom(line, i + 1, s)

\* lines 80-99: everything before the trading loop
MacdCall ==
    \E c11 \in Read(closes, FastSeed), c25 \in Read(closes, SlowSeed) :
        LET line == MacdFrom(MacdStart, c11, c25)
        IN \E m0 \in Read(line, 0) :
              /\ Begin("macd", Locals(Size(closes), 1))
              /\ macd' = line
              /\ signal' = <<m0>> \o SignalFrom(line, 1, m0)
              /\ oob' = (oob \/ ~(FastSeed < Size(closes))
                             \/ ~(SlowSeed < Size(closes)) \/ line = <<>>)
              /\ UNCHANGED <<closes, threshold, result, first, crashed, rsi_call>>

\* lines 84, 91: the out-of-range read ends the process instead
MacdFault ==
    /\ ~crashed
    /\ pc["macd"] # "scan"
    /\ calls["macd"] > 0
    /\ ~(SlowSeed < Size(closes)) \/ ~(MacdStart < Size(closes))
    /\ crashed' = TRUE
    /\ oob' = TRUE
    /\ calls' = [calls EXCEPT !["macd"] = @ - 1]
    /\ UNCHANGED <<closes, threshold, pc, loc, macd, signal, result, first,
                   rsi_call>>

\* lines 103, 107: the crossovers at position i of the two lines
MacdEntry(line, sig, i) ==
    At(line, i - 1) < At(sig, i - 1) /\ At(line, i) > At(sig, i)
MacdExit(line, sig, i) ==
    At(line, i - 1) > At(sig, i - 1) /\ At(line, i) < At(sig, i)

\* lines 101-115: one iteration of the loop
MacdBar(l, line, sig) ==
    LET idx == l.i + MacdStart
        t == Trade(l, idx, MacdEntry(line, sig, l.i), MacdExit(line, sig, l.i))
    IN [t EXCEPT !.i = @ + 1]

MacdStep ==
    /\ ~crashed /\ pc["macd"] = "scan"
    /\ loc["macd"].i < Size(signal)
    /\ loc' = [loc EXCEPT !["macd"] = MacdBar(@, macd, signal)]
    /\ UNCHANGED <<closes, threshold, calls, pc, macd, signal, result, first,
                   crashed, oob, rsi_call>>

MacdReturn ==
    /\ ~crashed /\ pc["macd"] = "scan"
    /\ ~(loc["macd"].i < Size(signal))
    /\ Return("macd")
    /\ UNCHANGED <<closes, threshold, calls, loc, macd, signal, crashed, oob,
                   rsi_call>>

\* --------------------------------------------------- run_bollinger_strategy
RECURSIVE SquareSum(_, _, _)
SquareSum(from, to, ma) ==
    IF from > to THEN 0
    ELSE SquareSum(from, to - 1, ma)
         + FMul(At(closes, to) - ma, At(closes, to) - ma)

BollingerCall ==
    /\ Begin("bollinger", Locals(Size(closes), BollPeriod))
    /\ UNCHANGED <<closes, threshold, macd, signal, result, first, crashed, oob,
                   rsi_call>>

\* lines 133-140: the bands at bar i
Bands(i) ==
    LET ma == sma(closes, i, BollPeriod)
        stddev == FSqrt(FDiv(SquareSum(i - BollPeriod + 1, i, ma), ToD(BollPeriod)))
    IN [upper |-> ma + FMul(ToD(BollWidth), stddev),
        lower |-> ma - FMul(ToD(BollWidth), stddev)]

\* lines 142, 146: the conditions at bar i
BollingerEntry(i) == At(closes, i) < Bands(i).lower
BollingerExit(i) == At(closes, i) > Bands(i).upper

\* lines 132-154: one iteration of the loop
BollingerBar(l) ==
    LET t == Trade(l, l.i, BollingerEntry(l.i), BollingerExit(l.i))
    IN [t EXCEPT !.i = @ + 1]

BollingerStep ==
    /\ ~crashed /\ pc["bollinger"] = "scan"
    /\ loc["bollinger"].i < Size(closes)
    /\ loc' = [loc EXCEPT !["bollinger"] = BollingerBar(@)]
    /\ UNCHANGED <<closes, threshold, calls, pc, macd, signal, result, first,
                   crashed, oob, rsi_call>>

BollingerReturn ==
    /\ ~crashed /\ pc["bollinger"] = "scan"
    /\ ~(loc["bollinger"].i < Size(closes))
    /\ Return("bollinger")
    /\ UNCHANGED <<closes, threshold, calls, loc, macd, signal, crashed, oob,
                   rsi_call>>

\* ------------------------------------------------- calculate_rsi, directly
\* one call by a caller, at any index of the series and any period up to the
\* default
RsiCalc ==
    /\ rsi_call = None
    /\ \E index \in 0..(Size(closes) - 1), period \in 1..RsiPeriod :
          rsi_call' = [index |-> index, period |-> period,
                       value |-> calculate_rsi(closes, index, period)]
    /\ UNCHANGED <<closes, threshold, calls, pc, loc, macd, signal, result, first,
                   crashed, oob>>

\* ----------------------------------------------------------------- inputs
MaxLen == 32
MaxRuns == 2

Min(a, b) == IF a < b THEN a ELSE b
Max(a, b) == IF a > b THEN a ELSE b

\* a price series of three straight segments that turn at bars t1 and t2, kept
\* within a price range
Shape(n, t1, t2, s0, s1, s2) ==
    [j \in 1..n |->
        LET b == j - 1
            raw == 30 + s0 * Min(b, t1) + s1 * Max(0, Min(b, t2) - t1)
                      + s2 * Max(0, b - t2)
        IN ToD(Max(5, Min(60, raw)))]

Slopes == {0 - 4, 0 - 1, 1, 4}
Turns == {<<10, 21>>, <<19, 30>>, <<20, 21>>}

Series ==
    {Shape(n, t[1], t[2], s0, s1, s2) :
        n \in 0..MaxLen, t \in Turns, s0 \in Slopes, s1 \in Slopes, s2 \in Slopes}

Thetas == {FDiv(ToD(1), ToD(100)), FDiv(ToD(1), ToD(2))}

InitWith(series, budget) ==
    /\ closes \in series
    /\ threshold \in Thetas
    /\ calls = [e \in Strategies |-> budget]
    /\ pc = [e \in Strategies |-> "idle"]
    /\ loc = [e \in Strategies |-> NoLocals]
    /\ macd = <<>>
    /\ signal = <<>>
    /\ result = [e \in Strategies |-> None]
    /\ first = [e \in Strategies |-> None]
    /\ crashed = FALSE
    /\ oob = FALSE
    /\ rsi_call = None

\* the caller makes one call after the other, as main does (lines 164-166)
NoneRunning == \A e \in Strategies : pc[e] # "scan"

Init == InitWith(Series, 1)

Next ==
    \/ NoneRunning /\ RsiCall
    \/ RsiStep
    \/ RsiReturn
    \/ NoneRunning /\ MacdCall
    \/ NoneRunning /\ MacdFault
    \/ MacdStep
    \/ MacdReturn
    \/ NoneRunning /\ BollingerCall
    \/ BollingerStep
    \/ BollingerReturn

Spec == Init /\ [][Next]_vars

\* a caller that runs the evaluators concurrently, each more than once
ParSeries == {Shape(n, 19, 30, 0 - 1, 1, 0 - 4) : n \in {MacdStart, MaxLen}}

InitPar == InitWith(ParSeries, MaxRuns)

NextPar ==
    \/ RsiCall
    \/ RsiStep
    \/ RsiReturn
    \/ MacdCall
    \/ MacdFault
    \/ MacdStep
    \/ MacdReturn
    \/ BollingerCall
    \/ BollingerStep
    \/ BollingerReturn

SpecPar == InitPar /\ [][NextPar]_vars

\* a caller of calculate_rsi alone
RsiSeries == {s \in Series : Len(s) <= RsiStart + 2}

InitRsi == InitWith(RsiSeries, 0)

NextRsi == RsiCalc

SpecRsi == InitRsi /\ [][NextRsi]_vars

\* ----------------------------------------------------------------- claims
RECURSIVE Count(_, _)
Count(seq, v) ==
    IF seq = <<>> THEN 0
    ELSE (IF Head(seq) = v THEN 1 ELSE 0) + Count(Tail(seq), v)

\* the non-zero markers of a timeline, in index order
RECURSIVE Markers(_)
Markers(seq) ==
    IF seq = <<>> THEN <<>>
    ELSE (IF Head(seq) = 0 THEN <<>> ELSE <<Head(seq)>>) \o Markers(Tail(seq))

\* Buy, Sell, Buy, Sell, ... from the first marker on
Alternates(seq) ==
    LET m == Markers(seq)
    IN \A k \in 1..Len(m) : m[k] = (IF k % 2 = 1 THEN 1 ELSE 0 - 1)

EndsLong(seq) ==
    LET m == Markers(seq) IN m # <<>> /\ m[Len(m)] = 1

Returned(e) == pc[e] = "done"

ZeroSummary ==
    [success_rate |-> 0, avg_return |-> 0, total_trades |-> 0,
     signal_positions |-> [j \in 1..Size(closes) |-> 0]]

\* the first bar an evaluator can mark
FirstBar(e) ==
    CASE e = "rsi" -> RsiStart
      [] e = "macd" -> MacdStart + 1
      [] e = "bollinger" -> BollPeriod

\* C1: on a series shorter than an evaluator's warm-up (down to the empty
\* series; for MACD every length from 0 to 27) the call completes, reads no
\* element outside the series or outside its macd and signal lines, and returns
\* the zero summary.
C1_ShortSeriesZeroSummary ==
    /\ Size(closes) <= FirstBar("macd") => ~crashed /\ ~oob
    /\ \A e \in Strategies :
          Size(closes) <= FirstBar(e) /\ Returned(e) => result[e] = ZeroSummary

\* C2: the non-zero markers of every timeline, while it is built and as
\* returned, alternate Buy, Sell, Buy, Sell, ... starting with a Buy.
C2_SignalsAlternate ==
    \A e \in Strategies :
        /\ Alternates(loc[e].signals)
        /\ Returned(e) => Alternates(result[e].signal_positions)

C2_Witness ==
    \E e \in Strategies :
        /\ Returned(e)
        /\ Count(result[e].signal_positions, 1) = 2
        /\ Count(result[e].signal_positions, 0 - 1) = 2

\* C3: total_trades is the number of Sell markers of the returned timeline; a
\* run that ends Long (its last marker is a Buy) has one Buy more than
\* total_trades, any other run as many.
C3_TradesAreSells ==
    \A e \in Strategies :
        Returned(e) =>
            LET r == result[e]
                buys == Count(r.signal_positions, 1)
                sells == Count(r.signal_positions, 0 - 1)
            IN /\ r.total_trades = sells
               /\ buys = r.total_trades
                          + (IF EndsLong(r.signal_positions) THEN 1 ELSE 0)

C3_Witness ==
    \E e \in Strategies :
        /\ Returned(e)
        /\ EndsLong(result[e].signal_positions)
        /\ result[e].total_trades = 1

\* the returns of the completed trades of a timeline, in order: each Buy at
\* bar b paired with the next Sell at bar s
RECURSIVE TradeReturns(_, _, _)
TradeReturns(seq, j, b) ==
    IF j >= Size(seq) THEN <<>>
    ELSE IF At(seq, j) = 1 THEN TradeReturns(seq, j + 1, j)
    ELSE IF At(seq, j) = 0 - 1
    THEN <<FDiv(At(closes, j) - At(closes, b), At(closes, b))>>
         \o TradeReturns(seq, j + 1, b)
    ELSE TradeReturns(seq, j + 1, b)

RECURSIVE SumSeq(_)
SumSeq(seq) == IF seq = <<>> THEN 0 ELSE Head(seq) + SumSeq(Tail(seq))

RECURSIVE CountAbove(_, _)
CountAbove(seq, t) ==
    IF seq = <<>> THEN 0
    ELSE (IF Head(seq) > t THEN 1 ELSE 0) + CountAbove(Tail(seq), t)

\* C4: the returned summary is the aggregation over the completed trades of
\* the returned timeline: success_rate = 100 * (trades with return > theta) /
\* total_trades, avg_return = 100 * (sum of returns / total_trades), both 0
\* without a trade.
C4_SummaryIsAggregation ==
    \A e \in Strategies :
        Returned(e) =>
            LET r == result[e]
                rets == TradeReturns(r.signal_positions, 0, 0)
                n == Len(rets)
            IN /\ r.total_trades = n
               /\ r.success_rate =
                     (IF n = 0 THEN 0
                      ELSE FMul(FDiv(ToD(CountAbove(rets, threshold)), ToD(n)),
                                ToD(100)))
               /\ r.avg_return =
                     (IF n = 0 THEN 0
                      ELSE FMul(FDiv(SumSeq(rets), ToD(n)), ToD(100)))

C4_Witness ==
    \E e \in Strategies :
        /\ Returned(e)
        /\ result[e].total_trades = 2
        /\ result[e].success_rate = ToD(50)
        /\ result[e].avg_return # 0

\* C5: a returned timeline has one entry per bar of the series, each -1, 0 or
\* 1, and only 0 before the evaluator's first bar: 15 for RSI, 27 for MACD, 20
\* for Bollinger.
C5_TimelineShape ==
    \A e \in Strategies :
        Returned(e) =>
            LET sp == result[e].signal_positions
            IN /\ Size(sp) = Size(closes)
               /\ \A j \in 0..(Size(sp) - 1) :
                     /\ At(sp, j) \in {0 - 1, 0, 1}
                     /\ j < FirstBar(e) => At(sp, j) = 0

C5_Witness ==
    /\ Returned("rsi") /\ Returned("bollinger") /\ Returned("macd")
    /\ Size(closes) > FirstBar("macd")
    /\ At(result["rsi"].signal_positions, RsiStart) = 1
    /\ Count(result["macd"].signal_positions, 1) = 1

\* C6: calculate_rsi returns a value in [0, 100] at every index of every series,
\* and exactly 50 whenever index < period.
C6_RsiRange ==
    rsi_call # None =>
        /\ 0 <= rsi_call.value /\ rsi_call.value <= ToD(100)
        /\ rsi_call.index < rsi_call.period => rsi_call.value = ToD(50)

C6_Witness ==
    /\ rsi_call # None
    /\ rsi_call.index >= rsi_call.period
    /\ rsi_call.period = RsiPeriod
    /\ 0 < rsi_call.value /\ rsi_call.value < ToD(100)

\* the summed gain and loss of the window a direct call looked at
CallGain ==
    GainSum(closes, rsi_call.index - rsi_call.period + 1, rsi_call.index)
CallLoss ==
    LossSum(closes, rsi_call.index - rsi_call.period + 1, rsi_call.index)

\* C8 as stated: with index >= period, a window without loss and without gain
\* (every close equal to its predecessor) gives RSI = 100.
C8_FlatWindowIsHundred ==
    (/\ rsi_call # None
     /\ rsi_call.index >= rsi_call.period
     /\ CallLoss = 0 /\ CallGain = 0)
        => rsi_call.value = ToD(100)

\* C8 amended: with index >= period, a window whose summed loss is 0 has its
\* gain/loss ratio taken as 0, and calculate_rsi returns 0, whether or not
\* there was any gain.
C8_ZeroLossIsZero ==
    (/\ rsi_call # None
     /\ rsi_call.index >= rsi_call.period
     /\ CallLoss = 0)
        => rsi_call.value = 0

C8_Witness ==
    /\ rsi_call # None
    /\ rsi_call.index >= rsi_call.period
    /\ rsi_call.period > 1
    /\ CallLoss = 0 /\ CallGain = 0
    /\ rsi_call.value = 0

\* the position state machine run from fresh locals to the end of the series,
\* with nothing else going on
RECURSIVE RsiAlone(_)
RsiAlone(l) == IF l.i < Size(closes) THEN RsiAlone(RsiBar(l)) ELSE Summary(l)

RECURSIVE MacdAlone(_, _, _)
MacdAlone(l, line, sig) ==
    IF l.i < Size(sig) THEN MacdAlone(MacdBar(l, line, sig), line, sig)
    ELSE Summary(l)

RECURSIVE BollingerAlone(_)
BollingerAlone(l) ==
    IF l.i < Size(closes) THEN BollingerAlone(BollingerBar(l)) ELSE Summary(l)

Alone(e) ==
    CASE e = "rsi" -> RsiAlone(Locals(Size(closes), RsiStart))
      [] e = "bollinger" -> BollingerAlone(Locals(Size(closes), BollPeriod))
      [] e = "macd" ->
            IF Size(closes) <= MacdStart THEN ZeroSummary
            ELSE LET line == MacdFrom(MacdStart, At(closes, FastSeed),
                                      At(closes, SlowSeed))
                 IN MacdAlone(Locals(Size(closes), 1), line,
                              <<line[1]>> \o SignalFrom(line, 1, line[1]))

\* C7: whatever the other evaluators are doing and however often an evaluator
\* has run before, what it returns is what it returned the first time and what
\* it returns when run alone on the same series and threshold; no step changes
\* the series or the threshold.
C7_ResultOfInputsOnly ==
    /\ [](\A e \in Strategies :
            Returned(e) => result[e] = first[e] /\ result[e] = Alone(e))
    /\ [][closes' = closes /\ threshold' = threshold]_vars

C7_Witness ==
    /\ \A e \in Strategies : Returned(e) /\ calls[e] = 0
    /\ result["rsi"].total_trades = 1
    /\ result["macd"].total_trades = 1

\* the conditions and the bar of the iteration an evaluator is about to run
EntryAt(e, l) ==
    CASE e = "rsi" -> RsiEntry(l.i)
      [] e = "macd" -> MacdEntry(macd, signal, l.i)
      [] e = "bollinger" -> BollingerEntry(l.i)

ExitAt(e, l) ==
    CASE e = "rsi" -> RsiExit(l.i)
      [] e = "macd" -> MacdExit(macd, signal, l.i)
      [] e = "bollinger" -> BollingerExit(l.i)

BarOf(e, l) == IF e = "macd" THEN l.i + MacdStart ELSE l.i

\* C9: an iteration at bar i that finds the run Flat and the entry condition
\* true marks Buy at i, records close[i] as the entry price and goes Long; one
\* that finds it Long and the exit condition true marks Sell at i, adds one
\* trade and its return and goes Flat; any other iteration leaves the marker at
\* i at 0 and the position, entry price, trade count and return sum as they
\* were.  No iteration does both.
C9_BarFrame ==
    [][\A e \in Strategies :
          (pc[e] = "scan" /\ pc'[e] = "scan" /\ loc'[e] # loc[e]) =>
              LET l == loc[e]
                  m == loc'[e]
                  idx == BarOf(e, l)
                  ret == FDiv(At(closes, idx) - l.entry, l.entry)
              IN /\ m.i = l.i + 1
                 /\ At(l.signals, idx) = 0
                 /\ IF ~l.holding /\ EntryAt(e, l)
                    THEN m = [l EXCEPT !.i = @ + 1, !.holding = TRUE,
                                       !.entry = At(closes, idx),
                                       !.signals[idx + 1] = 1]
                    ELSE IF l.holding /\ ExitAt(e, l)
                    THEN /\ m.trades = l.trades + 1
                         /\ m.total_ret = l.total_ret + ret
                         /\ m.profitables \in {l.profitables, l.profitables + 1}
                         /\ ~m.holding
                         /\ m.entry = l.entry
                         /\ m.signals = [l.signals EXCEPT ![idx + 1] = 0 - 1]
                    ELSE m = [l EXCEPT !.i = @ + 1]]_vars

\* an entry condition met while Long was passed over, after a completed trade
C9_Witness ==
    \E e \in Strategies :
        /\ pc[e] = "scan"
        /\ loc[e].trades > 0
        /\ loc[e].holding
        /\ loc[e].i > FirstBar(e)
        /\ LET before == [loc[e] EXCEPT !.i = @ - 1]
           IN /\ EntryAt(e, before)
              /\ At(loc[e].signals, BarOf(e, before)) = 0

\* EMA threaded through every bar from its seed bar to bar i
RECURSIVE Threaded(_, _, _)
Threaded(period, seed, i) ==
    IF i <= seed THEN At(closes, seed)
    ELSE ema(closes, i, period, Threaded(period, seed, i - 1))

\* C10: for every bar i >= 26 the MACD value is EMA12(i) - EMA26(i), EMA12
\* seeded with close[11] and advanced at each of bars 12..i, EMA26 seeded with
\* close[25] and advanced at each of bars 26..i.
C10_MacdLineThreaded ==
    (pc["macd"] # "idle" /\ Size(closes) > MacdStart) =>
        \A j \in 0..(Size(macd) - 1) :
            At(macd, j) = Threaded(FastPeriod, FastSeed, MacdStart + j)
                          - Threaded(SlowPeriod, SlowSeed, MacdStart + j)
====
